---- MODULE Spec2Model ----
(***************************************************************************)
(* State-machine model of the IC50 prediction pipeline:                    *)
(*   trainers.py  Trainer (construction, run, train, validate, inference)  *)
(*   dataset.py   DataPreprocess.split / k_fold_split,                     *)
(*                SimpleDNNPreprocess._preprocess                          *)
(*   models.py    SimpleDNN.forward / _transform, CountMorganEmbedding     *)
(* Floating point values are modelled exactly, as integers and as numbers  *)
(* (a + b * sqrt(V)) / c; strings by a small universe of spellings.        *)
(***************************************************************************)
EXTENDS Integers, Sequences, FiniteSets, TLC

\* ------------------------------------------------------------------ bounds
MaxEpoch == 3        \* cfg.epoch ranges over 0..MaxEpoch
MaxBatches == 2      \* batches per dataloader range over 0..MaxBatches
MaxBatchLoss == 1    \* loss.item() of one batch ranges over 0..MaxBatchLoss
MaxRows == 2         \* rows of train.csv and of test.csv range over 0..MaxRows
MaxLen == 5          \* rows of the table handed to split / k_fold_split
MaxFold == 3         \* k_fold ranges over 0..MaxFold
IndiceSize == 2      \* length of one count vector handed to SimpleDNN.forward
MaxCount == 2        \* entries of a count vector range over 0..MaxCount
MaxRecords == 2      \* records of one batch / of one submission
KeyCount == 3        \* key_count (13_279 in the source), scaled down
RadiusCount == 2     \* radius_count (4 in the source), scaled down

\* ------------------------------------------------------------------- state
\* Trainer (trainers.py)
VARIABLES
    cfg,             \* the configuration object handed to Trainer(cfg)
    cuda_available,  \* torch.cuda.is_available() of the host
    n_train,         \* number of batches of train_dataloader
    n_valid,         \* number of batches of valid_dataloader
    pc,              \* position of the Trainer's caller
    raised,          \* the exception that left the current call, if any
    device,          \* self.device
    model,           \* kind of self.model ("none" before construction)
    model_on,        \* device the parameters of self.model live on
    params,          \* version of the parameters (bumped by optimizer.step)
    epoch,           \* loop variable of run
    batch,           \* index of the next batch of the running pass
    best_loss,       \* local best_loss of run
    train_loss,      \* accumulator of train
    valid_loss,      \* accumulator of validate / local of run
    losses,          \* validation loss returned in each finished epoch
    saved_epochs,    \* epochs in which _save_best_model was called
    checkpoint,      \* parameter version held by the checkpoint file (-1: none)
    log,             \* the passes and steps performed by run, in order
    wandb_logs       \* number of wandb.log calls

\* SimpleDNNPreprocess (dataset.py)
VARIABLES
    pre_pc,          \* position inside SimpleDNNPreprocess.__init__
    pre_raised,      \* the exception that left _preprocess, if any
    train_df,        \* self.train_df, one sequence per column
    test_df,         \* self.test_df
    morgan_key       \* sorted vocabulary of substructure keys

\* DataPreprocess.split / k_fold_split (dataset.py)
VARIABLES
    split_pc,        \* "ready", then which split has returned
    train_index,     \* self.train_df.index: the row labels, in row order
    split_out,       \* what the call returned
    split_raised     \* the exception that left the call, if any

\* SimpleDNN.forward (models.py)
VARIABLES
    net_pc,          \* "ready", then "forwarded"
    weight,          \* self.embedding.embedding.weight, one row per index
    dense,           \* the dense argument x of forward, one row per record
    embeddings,      \* the count-vector argument of forward, one row per record
    net_indices,     \* what _transform returned
    pooled,          \* what self.embedding returned
    layers_input     \* the tensor handed to self.layers

\* Trainer.inference (trainers.py)
VARIABLES
    inf_pc,          \* "ready", then "written" or "raised"
    submission,      \* the list returned by evaluate: one array per record
    sample_len,      \* rows of sample_submission.csv
    IC50_nM,         \* the column written to the submission file
    inf_raised       \* the exception that left inference, if any

trainerVars == <<cfg, cuda_available, n_train, n_valid, pc, raised, device,
                 model, model_on, params, epoch, batch, best_loss, train_loss,
                 valid_loss, losses, saved_epochs, checkpoint, log, wandb_logs>>

preVars == <<pre_pc, pre_raised, train_df, test_df, morgan_key>>

splitVars == <<split_pc, train_index, split_out, split_raised>>

netVars == <<net_pc, weight, dense, embeddings, net_indices, pooled, layers_input>>

infVars == <<inf_pc, submission, sample_len, IC50_nM, inf_raised>>

vars == <<trainerVars, preVars, splitVars, netVars, infVars>>

\* What an operation of one component leaves alone.
exceptTrainer == <<preVars, splitVars, netVars, infVars>>
exceptPre == <<trainerVars, splitVars, netVars, infVars>>
exceptSplit == <<trainerVars, preVars, netVars, infVars>>
exceptNet == <<trainerVars, preVars, splitVars, infVars>>
exceptInf == <<trainerVars, preVars, splitVars, netVars>>

\* ------------------------------------------------------------ small helpers
Range(s) == {s[i] : i \in DOMAIN s}

Min(a, b) == IF a < b THEN a ELSE b

\* sorted(list(S)) of a set of integers
RECURSIVE sorted(_)
sorted(S) ==
    IF S = {} THEN <<>>
    ELSE LET m == CHOOSE x \in S : \A y \in S : x <= y
         IN <<m>> \o sorted(S \ {m})

\* =========================================================================
\*  trainers.py : Trainer
\* =========================================================================

\* Spellings of the configuration strings the model draws from.
LossKinds == {"mse", "MSE", "l1"}
ModelKinds == {"resnet", "BERT", "dnn", "gpt"}
DeviceKinds == {"cpu", "CUDA", "tpu"}

\* str.lower() on the spellings above.
lower(s) ==
    CASE s = "MSE" -> "mse"
      [] s = "BERT" -> "bert"
      [] s = "CUDA" -> "cuda"
      [] OTHER -> s

NoError == [type |-> "none", value |-> "none"]

Configs == [loss : LossKinds, model_name : ModelKinds, device : DeviceKinds,
            epoch : 0..MaxEpoch, wandb : BOOLEAN]

\* Trainer._device
Trainer_device(c, cuda) ==
    IF ~cuda THEN "cpu"
    ELSE IF lower(c.device) \notin {"cpu", "cuda"} THEN "cpu"
    ELSE lower(c.device)

\* Trainer._model: the module built, or the exception raised.  The 'dnn'
\* branch calls SimpleDNN(input_dim=..., emb_dims=...), a keyword that
\* SimpleDNN.__init__(input_dim, layer_dims, embed_dim, ...) does not take.
Trainer_model(c) ==
    LET m == lower(c.model_name) IN
    IF m = "resnet" \/ m = "bert"
    THEN [ok |-> TRUE, kind |-> "SimpleImageRegressor", error |-> NoError]
    ELSE IF m = "dnn"
    THEN [ok |-> FALSE, kind |-> "none",
          error |-> [type |-> "TypeError", value |-> "emb_dims"]]
    ELSE [ok |-> FALSE, kind |-> "none",
          error |-> [type |-> "ValueError", value |-> c.model_name]]

\* Trainer._loss
Trainer_loss(c) ==
    IF lower(c.loss) = "mse"
    THEN [ok |-> TRUE, error |-> NoError]
    ELSE [ok |-> FALSE, error |-> [type |-> "ValueError", value |-> c.loss]]

TrainerInit ==
    /\ cfg \in Configs
    /\ cuda_available \in BOOLEAN
    /\ n_train \in 0..MaxBatches
    /\ n_valid \in 0..MaxBatches
    /\ pc = "new"
    /\ raised = NoError
    /\ device = "none"
    /\ model = "none"
    /\ model_on = "none"
    /\ params = 0
    /\ epoch = 0
    /\ batch = 0
    /\ best_loss = 0
    /\ train_loss = 0
    /\ valid_loss = 0
    /\ losses = <<>>
    /\ saved_epochs = {}
    /\ checkpoint = -1
    /\ log = <<>>
    /\ wandb_logs = 0

\* Trainer.__init__: _device, then _model().to(device), Adam, then _loss.
Trainer__init__ ==
    /\ pc = "new"
    /\ LET d == Trainer_device(cfg, cuda_available)
           m == Trainer_model(cfg)
           l == Trainer_loss(cfg)
       IN /\ device' = d
          /\ IF ~m.ok
             THEN /\ pc' = "init_raised"
                  /\ raised' = m.error
                  /\ UNCHANGED <<model, model_on>>
             ELSE /\ model' = m.kind
                  /\ model_on' = d
                  /\ IF ~l.ok
                     THEN /\ pc' = "init_raised"
                          /\ raised' = l.error
                     ELSE /\ pc' = "constructed"
                          /\ UNCHANGED raised
    /\ UNCHANGED <<cfg, cuda_available, n_train, n_valid, params, epoch, batch,
                   best_loss, train_loss, valid_loss, losses, saved_epochs,
                   checkpoint, log, wandb_logs>>
    /\ UNCHANGED exceptTrainer

\* Trainer.run up to the first pass: _set_runname, best_loss = .0, and the
\* first iteration of range(cfg.epoch) entering train().
RunStart ==
    /\ pc = "constructed"
    /\ best_loss' = 0
    /\ epoch' = 0
    /\ batch' = 0
    /\ train_loss' = 0
    /\ IF cfg.epoch = 0
       THEN /\ pc' = "returned"
            /\ UNCHANGED log
       ELSE /\ pc' = "train"
            /\ log' = Append(log, [ev |-> "train_begin", epoch |-> 0])
    /\ UNCHANGED <<cfg, cuda_available, n_train, n_valid, raised, device,
                   model, model_on, params, valid_loss, losses, saved_epochs,
                   checkpoint, wandb_logs>>
    /\ UNCHANGED exceptTrainer

\* The forward pass self.model(X) with X moved to self.device: torch raises
\* when the parameters live on another device.
ForwardOk == model_on = device

\* One iteration of the loop of Trainer.train.
TrainBatch ==
    /\ pc = "train"
    /\ batch < n_train
    /\ IF ForwardOk
       THEN \E l \in 0..MaxBatchLoss :
               /\ params' = params + 1
               /\ train_loss' = train_loss + l
               /\ batch' = batch + 1
               /\ log' = Append(log, [ev |-> "step", epoch |-> epoch])
               /\ UNCHANGED <<pc, raised>>
       ELSE /\ pc' = "run_raised"
            /\ raised' = [type |-> "RuntimeError", value |-> "device"]
            /\ UNCHANGED <<params, train_loss, batch, log>>
    /\ UNCHANGED <<cfg, cuda_available, n_train, n_valid, device, model,
                   model_on, epoch, best_loss, valid_loss, losses,
                   saved_epochs, checkpoint, wandb_logs>>
    /\ UNCHANGED exceptTrainer

\* Trainer.train returns; run enters Trainer.validate.
TrainReturn ==
    /\ pc = "train"
    /\ batch = n_train
    /\ pc' = "validate"
    /\ batch' = 0
    /\ valid_loss' = 0
    /\ log' = Append(Append(log, [ev |-> "train_end", epoch |-> epoch]),
                     [ev |-> "validate_begin", epoch |-> epoch])
    /\ UNCHANGED <<cfg, cuda_available, n_train, n_valid, raised, device,
                   model, model_on, params, epoch, best_loss, train_loss,
                   losses, saved_epochs, checkpoint, wandb_logs>>
    /\ UNCHANGED exceptTrainer

\* One iteration of the loop of Trainer.validate.
ValidateBatch ==
    /\ pc = "validate"
    /\ batch < n_valid
    /\ IF ForwardOk
       THEN \E l \in 0..MaxBatchLoss :
               /\ valid_loss' = valid_loss + l
               /\ batch' = batch + 1
               /\ UNCHANGED <<pc, raised>>
       ELSE /\ pc' = "run_raised"
            /\ raised' = [type |-> "RuntimeError", value |-> "device"]
            /\ UNCHANGED <<valid_loss, batch>>
    /\ UNCHANGED <<cfg, cuda_available, n_train, n_valid, device, model,
                   model_on, params, epoch, best_loss, train_loss, losses,
                   saved_epochs, checkpoint, log, wandb_logs>>
    /\ UNCHANGED exceptTrainer

\* Trainer.validate returns its accumulated loss to run.
ValidateReturn ==
    /\ pc = "validate"
    /\ batch = n_valid
    /\ pc' = "decide"
    /\ losses' = Append(losses, valid_loss)
    /\ log' = Append(log, [ev |-> "validate_end", epoch |-> epoch])
    /\ UNCHANGED <<cfg, cuda_available, n_train, n_valid, raised, device,
                   model, model_on, params, epoch, batch, best_loss,
                   train_loss, valid_loss, saved_epochs, checkpoint,
                   wandb_logs>>
    /\ UNCHANGED exceptTrainer

\* The test of run that decides whether the epoch is checkpointed.
IsNewBest(best, valid, e) == best = 0 \/ valid < best

\* The rest of one iteration of run: the checkpoint decision with
\* _save_best_model (torch.save of self.model.cpu(), which moves the module
\* itself to the CPU), wandb.log, and the next iteration or the return.
Decide ==
    /\ pc = "decide"
    /\ IF IsNewBest(best_loss, valid_loss, epoch)
       THEN /\ best_loss' = valid_loss
            /\ saved_epochs' = saved_epochs \cup {epoch}
            /\ model_on' = "cpu"
            /\ checkpoint' = params
       ELSE UNCHANGED <<best_loss, saved_epochs, model_on, checkpoint>>
    /\ log' = Append(log, [ev |-> IF IsNewBest(best_loss, valid_loss, epoch)
                                  THEN "save" ELSE "keep",
                           epoch |-> epoch])
                \o IF epoch + 1 < cfg.epoch
                   THEN <<[ev |-> "train_begin", epoch |-> epoch + 1]>>
                   ELSE <<>>
    /\ wandb_logs' = IF cfg.wandb THEN wandb_logs + 1 ELSE wandb_logs
    /\ IF epoch + 1 < cfg.epoch
       THEN /\ epoch' = epoch + 1
            /\ pc' = "train"
            /\ batch' = 0
            /\ train_loss' = 0
       ELSE /\ pc' = "returned"
            /\ UNCHANGED <<epoch, batch, train_loss>>
    /\ UNCHANGED <<cfg, cuda_available, n_train, n_valid, raised, device,
                   model, params, valid_loss, losses>>
    /\ UNCHANGED exceptTrainer

TrainerNext ==
    \/ Trainer__init__
    \/ RunStart
    \/ TrainBatch
    \/ TrainReturn
    \/ ValidateBatch
    \/ ValidateReturn
    \/ Decide

\* The Trainer when another component is exercised.
TrainerUnused ==
    /\ cfg = [loss |-> "mse", model_name |-> "resnet", device |-> "cpu",
              epoch |-> 0, wandb |-> FALSE]
    /\ cuda_available = FALSE
    /\ n_train = 0
    /\ n_valid = 0
    /\ pc = "unused"
    /\ raised = NoError
    /\ device = "none"
    /\ model = "none"
    /\ model_on = "none"
    /\ params = 0
    /\ epoch = 0
    /\ batch = 0
    /\ best_loss = 0
    /\ train_loss = 0
    /\ valid_loss = 0
    /\ losses = <<>>
    /\ saved_epochs = {}
    /\ checkpoint = -1
    /\ log = <<>>
    /\ wandb_logs = 0

\* =========================================================================
\*  Exact arithmetic for the numeric steps
\* =========================================================================
\* A number is (a + b * sqrt(V)) / c with integers a, b, c > 0 and a
\* radicand V shared by an array (V = 1 for rationals, then b = 0).

Abs(x) == IF x < 0 THEN -x ELSE x

RECURSIVE Gcd(_, _)
Gcd(x, y) == IF y = 0 THEN x ELSE Gcd(y, x % y)

Norm(a, b, c) ==
    LET g == Gcd(Gcd(Abs(a), Abs(b)), Abs(c))
        s == IF c < 0 THEN -1 ELSE 1
    IN [a |-> (s * a) \div g, b |-> (s * b) \div g, c |-> (s * c) \div g]

Num(i) == [a |-> i, b |-> 0, c |-> 1]

NAdd(x, y) == Norm(x.a * y.c + y.a * x.c, x.b * y.c + y.b * x.c, x.c * y.c)

NNeg(x) == [a |-> -x.a, b |-> -x.b, c |-> x.c]

NSub(x, y) == NAdd(x, NNeg(y))

NMul(x, y, V) ==
    Norm(x.a * y.a + x.b * y.b * V, x.a * y.b + x.b * y.a, x.c * y.c)

NIsZero(x) == x.a = 0 /\ x.b = 0

\* x / y for y # 0: multiply by the conjugate of y.
NDiv(x, y, V) ==
    LET d == y.a * y.a - y.b * y.b * V
        inv == Norm(y.c * y.a, -(y.c * y.b), d)
    IN NMul(x, inv, V)

RECURSIVE NSum(_)
NSum(s) == IF s = <<>> THEN Num(0) ELSE NAdd(Head(s), NSum(Tail(s)))

IsSquare(t) == \E q \in 0..t : q * q = t

Root(t) == CHOOSE q \in 0..t : q * q = t

\* The largest k with k * k dividing t (t > 0).
SquarePart(t) ==
    CHOOSE k \in 1..t :
        /\ t % (k * k) = 0
        /\ \A j \in (k + 1)..t : t % (j * j) # 0

\* The square root of a rational x >= 0 inside the field of radicand V;
\* a rational array (V = 1) takes the radicand of its first irrational root.
\* ok is FALSE when the root lies outside the field.
NSqrt(x, V) ==
    LET t == x.a * x.c IN
    IF x.b # 0 \/ t < 0 THEN [ok |-> FALSE, v |-> Num(0), V |-> V]
    ELSE IF IsSquare(t) THEN [ok |-> TRUE, v |-> Norm(Root(t), 0, x.c), V |-> V]
    ELSE IF t % V = 0 /\ IsSquare(t \div V) /\ V # 1
         THEN [ok |-> TRUE, v |-> Norm(0, Root(t \div V), x.c), V |-> V]
    ELSE IF V = 1
         THEN [ok |-> TRUE, v |-> Norm(0, SquarePart(t), x.c),
               V |-> t \div (SquarePart(t) * SquarePart(t))]
    ELSE [ok |-> FALSE, v |-> Num(0), V |-> V]

\* =========================================================================
\*  dataset.py : SimpleDNNPreprocess._preprocess
\* =========================================================================

\* The structure strings of the model; "??" is one RDKit cannot parse.
SmilesStrings == {"C", "CC", "CO", "??"}

\* Chem.MolFromSmiles: the molecule, or None.
MolFromSmiles(smiles) == IF smiles = "??" THEN "None" ELSE smiles

\* additional_output.GetBitInfoMap() of the Morgan generator: substructure
\* key -> tuple of (atom index, radius) pairs.
GetBitInfoMap(mol) ==
    CASE mol = "C" -> (17 :> << <<0, 0>> >>)
      [] mol = "CC" -> (17 :> << <<0, 0>>, <<1, 0>> >>) @@ (42 :> << <<0, 1>> >>)
      [] mol = "CO" -> (17 :> << <<0, 0>> >>) @@ (29 :> << <<1, 0>> >>)
                       @@ (42 :> << <<0, 1>>, <<1, 1>> >>)

Absent == "absent"

Frame(smiles) ==
    [Smiles |-> smiles, morgan_info |-> Absent, morgan_embedding |-> Absent]

Tables == UNION {[1..n -> SmilesStrings] : n \in 0..MaxRows}

\* smiles_to_morgan: the bit info map, or a one-dimensional array of zeros.
smiles_to_morgan(smiles) ==
    LET mol == MolFromSmiles(smiles) IN
    IF mol # "None"
    THEN [kind |-> "dict", info |-> GetBitInfoMap(mol)]
    ELSE [kind |-> "ndarray", shape |-> <<KeyCount>>]

\* info.keys(): only a dict has it.
HasKeys(info) == info.kind = "dict"

Keys(info) == DOMAIN info.info

\* total_morgan_key2idx
key2idx(keys, k) == (CHOOSE i \in DOMAIN keys : keys[i] = k) - 1

\* Counter([radius[-1] for radius in radius_list])[r]
RadiusCountOf(radius_list, r) ==
    Cardinality({j \in DOMAIN radius_list : radius_list[j][2] = r})

\* morgan_info_to_embedding: the (key_count, radius_count) array of counts,
\* held flattened in row-major order.
morgan_info_to_embedding(info, keys) ==
    [kind |-> "array",
     shape |-> <<KeyCount, RadiusCount>>,
     V |-> 1,
     x |-> [p \in 1..(KeyCount * RadiusCount) |->
              LET row == (p - 1) \div RadiusCount
                  r == (p - 1) % RadiusCount
                  hit == {k \in Keys(info) : key2idx(keys, k) = row}
              IN IF hit = {} THEN Num(0)
                 ELSE Num(RadiusCountOf(info.info[CHOOSE k \in hit : TRUE], r))]]

\* np.mean(embedding.flatten())
np_mean(flat, V) == NDiv(NSum(flat), Num(Len(flat)), V)

\* np.std(embedding.flatten()): the root of the mean squared deviation
np_std(flat, V) ==
    LET m == np_mean(flat, V)
        sq == [i \in DOMAIN flat |->
                 NMul(NSub(flat[i], m), NSub(flat[i], m), V)]
    IN NSqrt(NDiv(NSum(sq), Num(Len(flat)), V), V)

NonFinite(shape) == [kind |-> "nonfinite", shape |-> shape]

NaN == [kind |-> "nan"]

\* standardization: embedding - mean / std, where the division binds first.
\* A zero std makes mean / std infinite or NaN (numpy warns, does not raise).
standardization(embedding) ==
    IF embedding.kind = "nan" THEN NaN
    ELSE IF embedding.kind # "array" THEN embedding
    ELSE LET flat == embedding.x
             root == np_std(flat, embedding.V)
             V == root.V
             mean == np_mean(flat, V)
             std == root.v
         IN IF ~root.ok \/ NIsZero(std) THEN NonFinite(embedding.shape)
            ELSE LET quotient == NDiv(mean, std, V)
                 IN [kind |-> "array", shape |-> embedding.shape, V |-> V,
                     x |-> [i \in DOMAIN flat |-> NSub(flat[i], quotient)]]

\* The state after _load_datas, when _preprocess starts.
PreInit ==
    /\ pre_pc = "loaded"
    /\ pre_raised = NoError
    /\ \E tr \in Tables : train_df = Frame(tr)
    /\ \E te \in Tables : test_df = Frame(te)
    /\ morgan_key = <<>>

\* train_df['morgan_info'] and test_df['morgan_info']
ToMorganInfo ==
    /\ pre_pc = "loaded"
    /\ train_df' = [train_df EXCEPT !.morgan_info =
                      [i \in DOMAIN train_df.Smiles |->
                         smiles_to_morgan(train_df.Smiles[i])]]
    /\ test_df' = [test_df EXCEPT !.morgan_info =
                      [i \in DOMAIN test_df.Smiles |->
                         smiles_to_morgan(test_df.Smiles[i])]]
    /\ pre_pc' = "morgan_info"
    /\ UNCHANGED <<pre_raised, morgan_key>>
    /\ UNCHANGED exceptPre

\* morgan_key_set.update(info.keys()) over both tables, morgan_key,
\* total_morgan_key2idx
BuildVocabulary ==
    /\ pre_pc = "morgan_info"
    /\ LET infos == Range(train_df.morgan_info) \cup Range(test_df.morgan_info)
       IN IF \E info \in infos : ~HasKeys(info)
          THEN /\ pre_pc' = "raised"
               /\ pre_raised' = [type |-> "AttributeError", value |-> "keys"]
               /\ UNCHANGED morgan_key
          ELSE /\ pre_pc' = "vocabulary"
               /\ morgan_key' = sorted(UNION {Keys(info) : info \in infos})
               /\ UNCHANGED pre_raised
    /\ UNCHANGED <<train_df, test_df>>
    /\ UNCHANGED exceptPre

\* train_df['morgan_embedding'] and test_df['morgan_embedding']
ToEmbedding ==
    /\ pre_pc = "vocabulary"
    /\ train_df' = [train_df EXCEPT !.morgan_embedding =
                      [i \in DOMAIN train_df.Smiles |->
                         morgan_info_to_embedding(train_df.morgan_info[i],
                                                  morgan_key)]]
    /\ test_df' = [test_df EXCEPT !.morgan_embedding =
                      [i \in DOMAIN test_df.Smiles |->
                         morgan_info_to_embedding(test_df.morgan_info[i],
                                                  morgan_key)]]
    /\ pre_pc' = "embedding"
    /\ UNCHANGED <<pre_raised, morgan_key>>
    /\ UNCHANGED exceptPre

\* The assignment of a Series to a column aligns on the index: a row of the
\* target whose label the Series lacks receives NaN.
AlignTo(series, target_len) ==
    [i \in 1..target_len |-> IF i \in DOMAIN series THEN series[i] ELSE NaN]

\* The column assigned to test_df['morgan_embedding'] by the last statement.
StandardizedTestColumn(train_column, test_column) ==
    AlignTo([i \in DOMAIN train_column |-> standardization(train_column[i])],
            Len(test_column))

\* The two assignments that follow "standardization...".
Standardize ==
    /\ pre_pc = "embedding"
    /\ LET train_column == [i \in DOMAIN train_df.morgan_embedding |->
                              standardization(train_df.morgan_embedding[i])]
       IN /\ train_df' = [train_df EXCEPT !.morgan_embedding = train_column]
          /\ test_df' = [test_df EXCEPT !.morgan_embedding =
                           StandardizedTestColumn(train_column,
                                                  test_df.morgan_embedding)]
    /\ pre_pc' = "done"
    /\ UNCHANGED <<pre_raised, morgan_key>>
    /\ UNCHANGED exceptPre

PreNext ==
    \/ ToMorganInfo
    \/ BuildVocabulary
    \/ ToEmbedding
    \/ Standardize

PreUnused ==
    /\ pre_pc = "unused"
    /\ pre_raised = NoError
    /\ train_df = Frame(<<>>)
    /\ test_df = Frame(<<>>)
    /\ morgan_key = <<>>

\* =========================================================================
\*  dataset.py : DataPreprocess.split, DataPreprocess.k_fold_split
\* =========================================================================

\* valid_ratio as an exact fraction <<numerator, denominator>>
Ratios == {<<0, 1>>, <<1, 5>>, <<1, 2>>, <<4, 5>>, <<1, 1>>, <<6, 5>>}

\* range(len(self.train_df))
range(n) == [i \in 1..n |-> i - 1]

\* int(len(indices) * valid_ratio)
SampleSize(n, valid_ratio) == (n * valid_ratio[1]) \div valid_ratio[2]

\* random.sample(population, k): every ordered choice of k distinct elements
random_sample(population, k) ==
    {s \in [1..k -> Range(population)] :
        \A i, j \in 1..k : i # j => s[i] # s[j]}

\* A variant of train_indices that takes the positions after the first
\* len(valid_indices) ones, whatever was sampled.
TrainIndicesTail(indices, valid_indices) ==
    SubSeq(indices, Len(valid_indices) + 1, Len(indices))

\* sorted(list(set(indices) - set(valid_indices)))
train_indices_of(indices, valid_indices) ==
    sorted(Range(indices) \ Range(valid_indices))

\* df.iloc[positions]: the rows at the given 0-based positions, in that order
iloc(index, positions) ==
    [j \in 1..Len(positions) |-> index[positions[j] + 1]]

\* df.iloc[start:stop]
iloc_slice(index, start, stop) ==
    SubSeq(index, Min(start, Len(index)) + 1, Min(stop, Len(index)))

\* df.drop(labels): the rows whose label is not among labels
drop(index, labels) ==
    LET keep(l) == l \notin labels IN SelectSeq(index, keep)

SplitInit ==
    /\ split_pc = "ready"
    /\ \E n \in 0..MaxLen : train_index = range(n)
    /\ split_out = [kind |-> "none"]
    /\ split_raised = NoError

\* DataPreprocess.split
Split ==
    /\ split_pc = "ready"
    /\ \E valid_ratio \in Ratios :
         LET indices == range(Len(train_index))
             k == SampleSize(Len(indices), valid_ratio)
         IN IF k > Len(indices)
            THEN /\ split_pc' = "raised"
                 /\ split_raised' = [type |-> "ValueError", value |-> "sample"]
                 /\ UNCHANGED split_out
            ELSE \E valid_indices \in random_sample(indices, k) :
                   LET train_indices == train_indices_of(indices, valid_indices)
                       train_part == iloc(train_index, train_indices)
                       valid_part == iloc(train_index, valid_indices)
                   IN IF Len(train_part) + Len(valid_part) # Len(train_index)
                      THEN /\ split_pc' = "raised"
                           /\ split_raised' = [type |-> "AssertionError",
                                               value |-> "split"]
                           /\ UNCHANGED split_out
                      ELSE /\ split_pc' = "split_done"
                           /\ split_out' = [kind |-> "split",
                                            valid_ratio |-> valid_ratio,
                                            train_df |-> train_part,
                                            valid_df |-> valid_part]
                           /\ UNCHANGED split_raised
    /\ UNCHANGED train_index
    /\ UNCHANGED exceptSplit

\* A variant of valid_end_idx that ends one row late.
ValidEndPlusOne(n, fold, size) == Min(n, (fold + 1) * size + 1)

\* valid_start_idx and valid_end_idx of one fold
valid_start_idx(fold, size) == fold * size

valid_end_idx(n, fold, size) == Min(n, (fold + 1) * size)

\* DataPreprocess.k_fold_split
KFoldSplit ==
    /\ split_pc = "ready"
    /\ \E k_fold \in 0..MaxFold :
         IF k_fold = 0
         THEN /\ split_pc' = "raised"
              /\ split_raised' = [type |-> "ZeroDivisionError", value |-> "k_fold"]
              /\ UNCHANGED split_out
         ELSE LET n == Len(train_index)
                  size == n \div k_fold
                  valid_of(fold) ==
                      iloc_slice(train_index, valid_start_idx(fold, size),
                                 valid_end_idx(n, fold, size))
              IN /\ split_pc' = "kfold_done"
                 /\ split_out' =
                      [kind |-> "k_fold",
                       k_fold |-> k_fold,
                       k_folded_datasets |->
                         [fold \in 0..(k_fold - 1) |->
                            [train_df |-> drop(train_index,
                                               Range(valid_of(fold))),
                             valid_df |-> valid_of(fold)]]]
                 /\ UNCHANGED split_raised
    /\ UNCHANGED train_index
    /\ UNCHANGED exceptSplit

SplitNext ==
    \/ Split
    \/ KFoldSplit

SplitUnused ==
    /\ split_pc = "unused"
    /\ train_index = <<>>
    /\ split_out = [kind |-> "none"]
    /\ split_raised = NoError

\* =========================================================================
\*  models.py : SimpleDNN.forward
\* =========================================================================

\* Values of the trained rows of the embedding table (embed_dim = 1).
WeightValues == {1, 2}

CountVectors == [1..IndiceSize -> 0..MaxCount]

DenseRows == {<<0>>, <<1>>}

\* nn.Embedding(..., padding_idx=0): row 0 of the table is the zero vector.
EmbeddingTables ==
    {w \in [0..IndiceSize -> WeightValues \cup {0}] :
        /\ w[0] = 0
        /\ \A i \in 1..IndiceSize : w[i] \in WeightValues}

NetInit ==
    /\ net_pc = "ready"
    /\ weight \in EmbeddingTables
    /\ \E b \in 1..MaxRecords :
         /\ dense \in [1..b -> DenseRows]
         /\ embeddings \in [1..b -> CountVectors]
    /\ net_indices = <<>>
    /\ pooled = <<>>
    /\ layers_input = <<>>

\* SimpleDNN._transform: mask * (arange(indice_size) + 1); position j of the
\* 1-based row is position j - 1 of the tensor, whose index is j.
SimpleDNN_transform(rows) ==
    [b \in DOMAIN rows |->
       [j \in DOMAIN rows[b] |-> (IF rows[b][j] # 0 THEN 1 ELSE 0) * j]]

\* torch.mean over dim=1 of the looked-up rows of one record; the mean of no
\* rows is NaN.
MeanOfRows(w, index_row) ==
    IF index_row = <<>> THEN NaN
    ELSE NDiv(NSum([j \in DOMAIN index_row |-> Num(w[index_row[j]])]),
              Num(Len(index_row)), 1)

\* CountMorganEmbedding.forward
CountMorganEmbedding_forward(w, index_rows) ==
    [b \in DOMAIN index_rows |-> MeanOfRows(w, index_rows[b])]

\* SimpleDNN.forward up to the call of self.layers, whose input it records
\* (the stack of layers is not interpreted).
SimpleDNN_forward ==
    /\ net_pc = "ready"
    /\ LET transformed == SimpleDNN_transform(embeddings)
           looked_up == CountMorganEmbedding_forward(weight, transformed)
       IN /\ net_indices' = transformed
          /\ pooled' = looked_up
          /\ layers_input' = [b \in DOMAIN dense |->
                               Append(dense[b], looked_up[b])]
    /\ net_pc' = "forwarded"
    /\ UNCHANGED <<weight, dense, embeddings>>
    /\ UNCHANGED exceptNet

NetNext == SimpleDNN_forward

NetUnused ==
    /\ net_pc = "unused"
    /\ weight = <<>>
    /\ dense = <<>>
    /\ embeddings = <<>>
    /\ net_indices = <<>>
    /\ pooled = <<>>
    /\ layers_input = <<>>

\* =========================================================================
\*  trainers.py : Trainer.inference
\* =========================================================================

\* Predicted pIC50 values the model draws from.
PIC50Values == 5..11

\* evaluate extends the list with one array of shape (1,) per record.
Submissions ==
    UNION {[1..n -> {<<p>> : p \in PIC50Values}] : n \in 0..MaxRecords}

InfInit ==
    /\ inf_pc = "ready"
    /\ submission \in Submissions
    /\ sample_len \in 0..MaxRecords
    /\ IC50_nM = Absent
    /\ inf_raised = NoError

RECURSIVE Pow10(_)
Pow10(n) == IF n = 0 THEN 1 ELSE 10 * Pow10(n - 1)

\* A variant of pIC50_to_IC50 with the exponent negated: 10 ** (pic50 - 9).
pIC50_to_IC50_negated(pic50) ==
    IF pic50 - 9 >= 0 THEN Num(Pow10(pic50 - 9)) ELSE Norm(1, 0, Pow10(9 - pic50))

\* 10 ** (9 - pic50_values), one element
pIC50_to_IC50(pic50) ==
    IF 9 - pic50 >= 0 THEN Num(Pow10(9 - pic50)) ELSE Norm(1, 0, Pow10(pic50 - 9))

\* np.array(submission).reshape(-1)
RECURSIVE reshape_flat(_)
reshape_flat(arrays) ==
    IF arrays = <<>> THEN <<>> ELSE Head(arrays) \o reshape_flat(Tail(arrays))

\* Trainer.inference: the column assignment needs as many values as
\* sample_submission.csv has rows.
Inference ==
    /\ inf_pc = "ready"
    /\ LET flat == reshape_flat(submission)
           values == [i \in DOMAIN flat |-> pIC50_to_IC50(flat[i])]
       IN IF Len(values) # sample_len
          THEN /\ inf_pc' = "raised"
               /\ inf_raised' = [type |-> "ValueError", value |-> "length"]
               /\ UNCHANGED IC50_nM
          ELSE /\ inf_pc' = "written"
               /\ IC50_nM' = values
               /\ UNCHANGED inf_raised
    /\ UNCHANGED <<submission, sample_len>>
    /\ UNCHANGED exceptInf

InfNext == Inference

InfUnused ==
    /\ inf_pc = "unused"
    /\ submission = <<>>
    /\ sample_len = 0
    /\ IC50_nM = Absent
    /\ inf_raised = NoError

\* =========================================================================
\*  Specifications, one per component
\* =========================================================================

InitTrainer ==
    TrainerInit /\ PreUnused /\ SplitUnused /\ NetUnused /\ InfUnused

InitPreprocess ==
    TrainerUnused /\ PreInit /\ SplitUnused /\ NetUnused /\ InfUnused

InitSplit ==
    TrainerUnused /\ PreUnused /\ SplitInit /\ NetUnused /\ InfUnused

InitForward ==
    TrainerUnused /\ PreUnused /\ SplitUnused /\ NetInit /\ InfUnused

InitInference ==
    TrainerUnused /\ PreUnused /\ SplitUnused /\ NetUnused /\ InfInit

Spec == InitTrainer /\ [][TrainerNext]_vars

SpecPreprocess == InitPreprocess /\ [][PreNext]_vars

SpecSplit == InitSplit /\ [][SplitNext]_vars

SpecForward == InitForward /\ [][NetNext]_vars

SpecInference == InitInference /\ [][InfNext]_vars

\* =========================================================================
\*  Claims
\* =========================================================================

\* ---- C1 (checked under Spec) ----
\* C1: the checkpoint is written in an epoch only when that epoch's
\* validation loss is strictly lower than every validation loss of an
\* earlier epoch, and epoch 0 always writes it.
C1_SavesOnlyOnStrictlyLowerLoss ==
    /\ \A e \in saved_epochs :
         e = 0 \/ \A j \in 0..(e - 1) : losses[e + 1] < losses[j + 1]
    /\ (Len(losses) >= 1 /\ (pc # "decide" \/ epoch > 0)) => 0 \in saved_epochs

\* ---- C6 (checked under Spec) ----
LossKnown(c) == lower(c.loss) = "mse"

ModelKnown(c) == lower(c.model_name) \in {"resnet", "bert", "dnn"}

\* C6: once construction has ended, a configuration with an unknown loss
\* kind or an unknown model kind has raised a ValueError that names the
\* offending value, and nothing was trained, validated or saved.
C6_UnknownKindRaisesValueError ==
    (pc # "new" /\ (~LossKnown(cfg) \/ ~ModelKnown(cfg))) =>
        /\ pc = "init_raised"
        /\ raised.type = "ValueError"
        /\ raised.value \in
             (IF ~LossKnown(cfg) THEN {cfg.loss} ELSE {}) \cup
             (IF ~ModelKnown(cfg) THEN {cfg.model_name} ELSE {})
        /\ log = <<>>
        /\ saved_epochs = {}

\* ---- C8 (checked under Spec) ----
Repeat(n, ev) == [i \in 1..n |-> ev]

\* The passes of one epoch, the checkpoint decision written as "decide".
EpochPasses(e) ==
    <<[ev |-> "train_begin", epoch |-> e]>>
    \o Repeat(n_train, [ev |-> "step", epoch |-> e])
    \o <<[ev |-> "train_end", epoch |-> e],
         [ev |-> "validate_begin", epoch |-> e],
         [ev |-> "validate_end", epoch |-> e],
         [ev |-> "decide", epoch |-> e]>>

RECURSIVE RunPasses(_)
RunPasses(n) == IF n = 0 THEN <<>> ELSE RunPasses(n - 1) \o EpochPasses(n - 1)

Decisions(l) ==
    [i \in DOMAIN l |->
       IF l[i].ev \in {"save", "keep"}
       THEN [ev |-> "decide", epoch |-> l[i].epoch] ELSE l[i]]

\* C8: when run has ended, it has performed for every epoch 0..E-1, in
\* order, one training pass of one optimizer step per training batch, then
\* one validation pass without any step, then the checkpoint decision.
C8_EveryEpochTrainsThenValidates ==
    pc \in {"returned", "run_raised"} =>
        /\ pc = "returned"
        /\ Decisions(log) = RunPasses(cfg.epoch)
        /\ params = cfg.epoch * n_train

\* ---- C2 (checked under SpecPreprocess) ----
Unparseable(smiles) == MolFromSmiles(smiles) = "None"

ZeroEmbedding ==
    [kind |-> "array", shape |-> <<KeyCount, RadiusCount>>, V |-> 1,
     x |-> [p \in 1..(KeyCount * RadiusCount) |-> Num(0)]]

ZeroWhereUnparseable(df) ==
    \A i \in DOMAIN df.Smiles :
        Unparseable(df.Smiles[i]) => df.morgan_embedding[i] = ZeroEmbedding

\* C2: with a row whose structure string does not parse, the embedding step
\* does not raise, and it leaves that row an all-zero embedding of the
\* declared shape.
C2_UnparseableRowGetsZeroEmbedding ==
    /\ (\E s \in Range(train_df.Smiles) \cup Range(test_df.Smiles) :
          Unparseable(s)) => pre_pc # "raised"
    /\ pre_pc = "embedding" =>
          ZeroWhereUnparseable(train_df) /\ ZeroWhereUnparseable(test_df)

\* ---- C9 (checked under SpecPreprocess) ----
\* (e - mean) / std of a count array e: the mean subtracted first
StandardScore(embedding) ==
    LET flat == embedding.x
        root == np_std(flat, embedding.V)
        mean == np_mean(flat, root.V)
    IN IF ~root.ok \/ NIsZero(root.v) THEN NonFinite(embedding.shape)
       ELSE [kind |-> "array", shape |-> embedding.shape, V |-> root.V,
             x |-> [i \in DOMAIN flat |->
                      NDiv(NSub(flat[i], mean), root.v, root.V)]]

\* C9: after the normalization step every train record holds
\* (e - mean) / std of its own count array e.
C9_StandardizationIsStandardScore ==
    pre_pc = "done" =>
        \A i \in DOMAIN train_df.Smiles :
            train_df.morgan_embedding[i] =
                StandardScore(morgan_info_to_embedding(train_df.morgan_info[i],
                                                       morgan_key))

\* ---- C10 (checked under SpecPreprocess) ----
\* C10: after _preprocess every test row holds the embedding of its own
\* structure string, normalized once.
C10_TestRowsHoldOwnEmbedding ==
    pre_pc = "done" =>
        \A i \in DOMAIN test_df.Smiles :
            test_df.morgan_embedding[i] =
                standardization(
                    morgan_info_to_embedding(test_df.morgan_info[i], morgan_key))

\* ---- C3 (checked under SpecSplit) ----
Disjoint(s, t) == Range(s) \cap Range(t) = {}

\* s and t together hold every row of the table exactly once
Partitions(s, t, table) ==
    /\ Disjoint(s, t)
    /\ Range(s) \cup Range(t) = Range(table)
    /\ Len(s) + Len(t) = Len(table)

\* C3: k_fold_split(k) with k >= 1 returns exactly k folds, whose validation
\* partitions are pairwise disjoint and each of which splits the whole
\* table into its training and its validation partition.
C3_KFoldPartitions ==
    split_pc = "kfold_done" =>
        LET folds == split_out.k_folded_datasets IN
        /\ DOMAIN folds = 0..(split_out.k_fold - 1)
        /\ \A f, g \in DOMAIN folds :
              f # g => Disjoint(folds[f].valid_df, folds[g].valid_df)
        /\ \A f \in DOMAIN folds :
              Partitions(folds[f].train_df, folds[f].valid_df, train_index)

C3_Witness ==
    /\ split_pc = "kfold_done"
    /\ Len(train_index) = 5
    /\ split_out.k_fold = 2
    /\ split_out.k_folded_datasets[1].valid_df = <<2, 3>>
    /\ split_out.k_folded_datasets[1].train_df = <<0, 1, 4>>

\* ---- C4 (checked under SpecSplit) ----
\* C4: split(valid_ratio) with valid_ratio in [0, 1] returns a training and a
\* validation partition whose sizes sum to the table's, that share no row
\* and that together hold every row of the table exactly once.
C4_SplitPartitions ==
    split_pc = "split_done" =>
        Partitions(split_out.train_df, split_out.valid_df, train_index)

C4_Witness ==
    /\ split_pc = "split_done"
    /\ Len(train_index) = 5
    /\ split_out.valid_ratio = <<1, 2>>
    /\ split_out.valid_df = <<3, 0>>
    /\ split_out.train_df = <<1, 2, 4>>

\* ---- C5 (checked under SpecForward) ----
\* The indices of the nonzero entries of one count vector, as a list.
NonzeroIndexList(counts) ==
    LET all == [j \in DOMAIN counts |-> j]
        nonzero(j) == counts[j] # 0
    IN SelectSeq(all, nonzero)

\* C5: forward maps a zero entry to index 0 and a nonzero entry at position
\* p to index p + 1, and the pooled embedding of a record is the pooling of
\* the list of its nonzero indices alone (the empty list for an all-zero
\* record).
C5_PoolsOverNonzeroIndicesOnly ==
    net_pc = "forwarded" =>
        \A b \in DOMAIN embeddings :
            /\ \A j \in 1..IndiceSize :
                  net_indices[b][j] = IF embeddings[b][j] = 0 THEN 0 ELSE j
            /\ pooled[b] = MeanOfRows(weight, NonzeroIndexList(embeddings[b]))

\* ---- C7 (checked under SpecInference) ----
\* 10^(9 - p) for the predicted values of the model, written out.
IC50Table ==
    (5 :> [a |-> 10000, b |-> 0, c |-> 1]) @@
    (6 :> [a |-> 1000, b |-> 0, c |-> 1]) @@
    (7 :> [a |-> 100, b |-> 0, c |-> 1]) @@
    (8 :> [a |-> 10, b |-> 0, c |-> 1]) @@
    (9 :> [a |-> 1, b |-> 0, c |-> 1]) @@
    (10 :> [a |-> 1, b |-> 0, c |-> 10]) @@
    (11 :> [a |-> 1, b |-> 0, c |-> 100])

\* C7: the IC50_nM column written by inference has one value per predicted
\* pIC50 value p, in the same order, and that value is 10^(9 - p).
C7_ColumnIsTenToNineMinusP ==
    inf_pc = "written" =>
        /\ Len(IC50_nM) = Len(submission)
        /\ \A i \in DOMAIN submission :
              IC50_nM[i] = IC50Table[submission[i][1]]

C7_Witness ==
    /\ inf_pc = "written"
    /\ submission = << <<9>>, <<6>> >>
    /\ IC50_nM = <<Num(1), Num(1000)>>

\* ---- C11 (checked under SpecSplit) ----
\* The folds whose validation partition holds the row.
ValidatingFolds(row) ==
    {f \in DOMAIN split_out.k_folded_datasets :
        row \in Range(split_out.k_folded_datasets[f].valid_df)}

\* C11: after k_fold_split(k) every row of the training table is in the
\* validation partition of exactly one fold, so the validation partitions
\* together cover the table.
C11_EveryRowValidatedOnce ==
    split_pc = "kfold_done" =>
        \A row \in Range(train_index) : Cardinality(ValidatingFolds(row)) = 1

====
